---- MODULE Spec2Model ----
(***************************************************************************)
(* Model of the bounded streaming executor (buffered_execution), of the    *)
(* analysis loop of Sourced.run_on and of the PyPI acquisition pipeline    *)
(* (download_target / download_pypi_dataset) with its metadata store.      *)
(***************************************************************************)
EXTENDS Integers, Sequences, FiniteSets, TLC

\* ---------------------------------------------------------------- bounds
MaxItems == 3        \* longest input sequence handed to buffered_execution
MaxBuffered == 3     \* largest max_buffered_tasks tried
MaxWorkers == 2      \* largest pool size tried for the abstract pool
MaxFiles == 3        \* longest flat file list given to the analysis stage
MaxSources == 2      \* largest number of sources of the dataset
MaxStoredSources == 2    \* most sources of a Dataset object that is saved
MaxCpuCount == 32        \* largest value os.cpu_count() returns

\* --------------------------------------------------- program constants
TasksPerProcess == 64    \* max_task_buffer = self.num_processes * 64
DefaultCpuCount == 4     \* cpu_count = os.cpu_count() or 4

VARIABLES
    \* the executor (concurrent.futures pool) shared by every loop
    max_workers,        \* pool size
    submitted,          \* submitted[f] = the input value of future f
    fstate,             \* fstate[f] in {"PENDING", "RUNNING", "FINISHED"}
    fexc,               \* fexc[f] in {"none", "error", "skip"}: exception held
    yieldCount,         \* yieldCount[f] = times future f was handed to the caller
    \* buffered_execution
    input_items,        \* the whole input sequence (what iter() was built on)
    iterator,           \* items not yet pulled
    inputs,             \* the items pulled by the current iteration (line 43)
    max_buffered_tasks,
    running_tasks,
    completed_tasks,
    pc,                 \* "idle", "topup", "wait", "yield", "done", "raised"
    \* Sourced.run_on, analysis stage
    all_files,          \* the collected flat file list
    left_files,         \* iter(all_files): files not yet pulled
    files,              \* the files pulled by the current iteration
    max_task_buffer,
    running_futures,
    completed_futures,
    future_iter,        \* futures of completed_futures the for loop has not visited
    ro_pc,              \* "idle", "topup", "wait", "yielding", "done", "raised"
    \* the dataset, the file system and download_pypi_dataset
    status,             \* status[s]: SourceStatus of dataset.sources[s]
    path,               \* path[s]: "None", or "set" (= dataset.path / name)
    dir,                \* dir[s]: what is on disk at dataset.path / name
    cache_file,         \* content of <dataset.path>/datasets.json
    tpc,                \* tpc[s]: position of the unit of work of source s
    texc,               \* texc[s]: exception travelling up in that unit
    task_iter,          \* completed tasks the orchestrator has not handled yet
    opc,                \* position of download_pypi_dataset
    \* the metadata store: Dataset and GlobalStore objects and their files
    disk,               \* disk[f]: content of the file at path f
    dataset,            \* a Dataset object held by the process
    store,              \* the GlobalStore object held by the process
    wr,                 \* the cache() call in progress
    result,             \* what the last load returned or raised
    cpc                 \* position of the process in main / create_dataset

execVars == <<max_workers, submitted, fstate, fexc, yieldCount>>
beVars == <<input_items, iterator, inputs, max_buffered_tasks, running_tasks,
            completed_tasks, pc>>
roVars == <<all_files, left_files, files, max_task_buffer, running_futures,
            completed_futures, future_iter, ro_pc>>
acqVars == <<status, path, dir, cache_file, tpc, texc, task_iter, opc>>
storeVars == <<disk, dataset, store, wr, result, cpc>>
vars == <<execVars, beVars, roVars, acqVars, storeVars>>

Min(a, b) == IF a < b THEN a ELSE b

Range(s) == {s[i] : i \in 1..Len(s)}

Futures == 1..Len(submitted)

\* ------------------------------------------------------------- executor
\* Executor.submit for a list of inputs: one new PENDING future per input.
NewFutures(values) == (Len(submitted) + 1)..(Len(submitted) + Len(values))

Submit(values) ==
    /\ submitted' = submitted \o values
    /\ fstate' = fstate \o [i \in 1..Len(values) |-> "PENDING"]
    /\ fexc' = fexc \o [i \in 1..Len(values) |-> "none"]
    /\ yieldCount' = yieldCount \o [i \in 1..Len(values) |-> 0]

NumRunning == Cardinality({f \in Futures : fstate[f] = "RUNNING"})

\* A pool worker picks a queued future up.
PoolStart(f) ==
    /\ fstate[f] = "PENDING"
    /\ NumRunning < max_workers
    /\ fstate' = [fstate EXCEPT ![f] = "RUNNING"]

\* The unit of work returns (exc = "none") or raises; either way the future
\* becomes FINISHED and holds the outcome.
PoolFinish(f, exc) ==
    /\ fstate[f] = "RUNNING"
    /\ fstate' = [fstate EXCEPT ![f] = "FINISHED"]
    /\ fexc' = [fexc EXCEPT ![f] = exc]

\* Future.result() re-raises the exception the future holds.
result_raises(f) == fexc[f] # "none"

\* futures.wait(fs, timeout): the futures of fs that are finished when it
\* returns, whatever they hold.
wait_done(fs) == {f \in fs : fstate[f] = "FINISHED"}

wait_not_done(fs) == {f \in fs : fstate[f] # "FINISHED"}

\* futures.wait(fs, timeout) with return_when left at its default,
\* ALL_COMPLETED: the call returns before the timeout has elapsed when no
\* future of fs is unfinished
wait_returns(fs) == wait_not_done(fs) = {}

\* --------------------------------------------------- buffered_execution
islice(it, n) == SubSeq(it, 1, Min(n, Len(it)))

islice_rest(it, n) == SubSeq(it, Min(n, Len(it)) + 1, Len(it))

\* islice stop argument of line 43
BufferSlots_NoSubtract(m, running) == m
BufferSlots(m, running) == m - Cardinality(running)

\* loop exit test of line 44
ShouldBreak_InputsOnly(pulled, running) == pulled = <<>>
ShouldBreak(pulled, running) == pulled = <<>> /\ running = {}

\* running_tasks.update(...) of line 47
UpdateRunning_Assign(running, new) == new
UpdateRunning(running, new) == running \cup new

\* line 54 yields the set of futures itself: no result() is called on them
YieldRaises_CallsResult(batch) == \E f \in batch : result_raises(f)
YieldRaises(batch) == FALSE

\* lines 43-45: nothing pulled and nothing outstanding: the generator ends
BE_Break ==
    /\ pc = "topup"
    /\ BufferSlots(max_buffered_tasks, running_tasks) >= 0
    /\ LET n == BufferSlots(max_buffered_tasks, running_tasks)
       IN /\ ShouldBreak(islice(iterator, n), running_tasks)
          /\ inputs' = islice(iterator, n)
          /\ iterator' = islice_rest(iterator, n)
    /\ pc' = "done"
    /\ UNCHANGED <<input_items, max_buffered_tasks, running_tasks,
                   completed_tasks>>

\* lines 43-49: pull up to the free capacity and submit every pulled item
BE_TopUp ==
    /\ pc = "topup"
    /\ BufferSlots(max_buffered_tasks, running_tasks) >= 0
    /\ LET n == BufferSlots(max_buffered_tasks, running_tasks)
       IN /\ ~ShouldBreak(islice(iterator, n), running_tasks)
          /\ inputs' = islice(iterator, n)
          /\ iterator' = islice_rest(iterator, n)
          /\ Submit(islice(iterator, n))
          /\ running_tasks' = UpdateRunning(running_tasks,
                                            NewFutures(islice(iterator, n)))
    /\ pc' = "wait"
    /\ UNCHANGED <<input_items, max_buffered_tasks, completed_tasks>>

\* lines 50-54, common part: partition the working set and yield the batch
BE_WaitReturn ==
    /\ completed_tasks' = wait_done(running_tasks)
    /\ running_tasks' = wait_not_done(running_tasks)
    /\ yieldCount' = [f \in Futures |->
                        IF f \in wait_done(running_tasks)
                        THEN yieldCount[f] + 1 ELSE yieldCount[f]]
    /\ pc' = IF YieldRaises(wait_done(running_tasks)) THEN "raised" ELSE "yield"
    /\ UNCHANGED <<input_items, iterator, inputs, max_buffered_tasks>>

\* futures.wait returns because every awaited future is finished
BE_WaitAllDone ==
    /\ pc = "wait"
    /\ wait_returns(running_tasks)
    /\ BE_WaitReturn

\* futures.wait returns because _per_check_delay elapsed
BE_WaitTimeout ==
    /\ pc = "wait"
    /\ ~wait_returns(running_tasks)
    /\ BE_WaitReturn

\* the consumer asks for the next batch: the generator resumes after line 54
BE_Resume ==
    /\ pc = "yield"
    /\ pc' = "topup"
    /\ UNCHANGED <<input_items, iterator, inputs, max_buffered_tasks,
                   running_tasks, completed_tasks>>

\* the generator is not in use
BE_Idle ==
    /\ input_items = <<>>
    /\ iterator = <<>>
    /\ inputs = <<>>
    /\ max_buffered_tasks = 1
    /\ running_tasks = {}
    /\ completed_tasks = {}
    /\ pc = "idle"

\* ------------------------------------------ Sourced.run_on, analysis stage
\* lines 93-97: no file pulled: the loop, and with it the generator, ends
RO_Break ==
    /\ ro_pc = "topup"
    /\ max_task_buffer - Cardinality(running_futures) >= 0
    /\ LET n == max_task_buffer - Cardinality(running_futures)
       IN /\ islice(left_files, n) = <<>>
          /\ files' = islice(left_files, n)
          /\ left_files' = islice_rest(left_files, n)
    /\ ro_pc' = "done"
    /\ UNCHANGED <<all_files, max_task_buffer, running_futures,
                   completed_futures, future_iter>>

\* lines 93-101: pull up to the free capacity and submit every pulled file
RO_TopUp ==
    /\ ro_pc = "topup"
    /\ max_task_buffer - Cardinality(running_futures) >= 0
    /\ LET n == max_task_buffer - Cardinality(running_futures)
       IN /\ islice(left_files, n) # <<>>
          /\ files' = islice(left_files, n)
          /\ left_files' = islice_rest(left_files, n)
          /\ Submit(islice(left_files, n))
          /\ running_futures' = running_futures \cup NewFutures(islice(left_files, n))
    /\ ro_pc' = "wait"
    /\ UNCHANGED <<all_files, max_task_buffer, completed_futures, future_iter>>

\* lines 102-105, common part: partition the working set, start the for loop
RO_WaitReturn ==
    /\ completed_futures' = wait_done(running_futures)
    /\ running_futures' = wait_not_done(running_futures)
    /\ future_iter' = wait_done(running_futures)
    /\ ro_pc' = "yielding"
    /\ UNCHANGED <<all_files, left_files, files, max_task_buffer>>

\* wait returns because every awaited future is finished
RO_WaitAllDone ==
    /\ ro_pc = "wait"
    /\ wait_not_done(running_futures) = {}
    /\ RO_WaitReturn

\* wait returns because the 0.25 s timeout elapsed
RO_WaitTimeout ==
    /\ ro_pc = "wait"
    /\ wait_not_done(running_futures) # {}
    /\ RO_WaitReturn

\* lines 107-108: future.result() returns and its value is yielded
RO_YieldResult(f) ==
    /\ ro_pc = "yielding"
    /\ f \in future_iter
    /\ ~result_raises(f)
    /\ yieldCount' = [yieldCount EXCEPT ![f] = @ + 1]
    /\ future_iter' = future_iter \ {f}
    /\ UNCHANGED <<all_files, left_files, files, max_task_buffer,
                   running_futures, completed_futures, ro_pc>>

\* line 108: future.result() re-raises the failure inside the generator,
\* which ends with that exception
RO_ResultRaises(f) ==
    /\ ro_pc = "yielding"
    /\ f \in future_iter
    /\ result_raises(f)
    /\ ro_pc' = "raised"
    /\ UNCHANGED <<all_files, left_files, files, max_task_buffer,
                   running_futures, completed_futures, future_iter>>

\* the for loop of line 107 is over: back to line 93
RO_NextIteration ==
    /\ ro_pc = "yielding"
    /\ future_iter = {}
    /\ ro_pc' = "topup"
    /\ UNCHANGED <<all_files, left_files, files, max_task_buffer,
                   running_futures, completed_futures, future_iter>>

\* lines 54-62, the listing stage: the sources whose path is not None are
\* the ones scanned for files
run_on_sources ==
    SelectSeq([i \in 1..Len(status) |-> i], LAMBDA i : path[i] # "None")

\* the analysis stage is not in use
RO_Idle ==
    /\ all_files = <<>>
    /\ left_files = <<>>
    /\ files = <<>>
    /\ max_task_buffer = 1
    /\ running_futures = {}
    /\ completed_futures = {}
    /\ future_iter = {}
    /\ ro_pc = "idle"

\* --------------------------------------------------- concurrency sizing
\* round() of the fraction num / den, halves going to the even neighbour
round_HalfUp(num, den) ==
    IF 2 * (num % den) < den THEN num \div den ELSE (num \div den) + 1
round(num, den) ==
    LET q == num \div den
        r == num % den
    IN IF 2 * r < den THEN q
       ELSE IF 2 * r > den THEN q + 1
       ELSE IF q % 2 = 0 THEN q ELSE q + 1

workers(heavy, cpu_count) ==
    CASE heavy = "io" -> cpu_count * 4
      [] heavy = "cpu" -> round(cpu_count * 125, 100)
      [] heavy = "both" -> round(cpu_count * 2, 1)
      [] OTHER -> "ValueError"

\* ------------------------------------------------------ metadata store
Sources == 1..Len(status)

\* the path is written relative to the dataset's path, None as null
Source_to_json(s) ==
    [name |-> s,
     path |-> IF path[s] = "None" THEN "null" ELSE "relative",
     status |-> status[s]]

Dataset_to_json == [s \in Sources |-> Source_to_json(s)]

\* Dataset.cache(): the new document replaces the cache file
Dataset_cache_Never == UNCHANGED cache_file
Dataset_cache == cache_file' = Dataset_to_json

\* Source.from_json: null gives None, a relative path is joined to the
\* dataset's path, the status is looked up by its value
Source_from_json(j) ==
    [path |-> IF j.path = "null" THEN "None" ELSE "set",
     status |-> j.status]

\* ------------------------------------------------------ download_target
\* the source a future of the acquisition pool works on
Src(f) == submitted[f]

\* the unit of work of future f is at position p
At(f, p) ==
    /\ f \in Futures
    /\ fstate[f] = "RUNNING"
    /\ tpc[Src(f)] = p

\* what a step of a unit of work never touches
DT_Frame == UNCHANGED <<max_workers, submitted, yieldCount, beVars, roVars, storeVars,
                        cache_file, task_iter, opc>>

\* the unit of work ends: the future holds its result or its exception
DT_Finish(f, exc) ==
    /\ PoolFinish(f, exc)
    /\ tpc' = [tpc EXCEPT ![Src(f)] = "done"]
    /\ texc' = [texc EXCEPT ![Src(f)] = "none"]

DT_Goto(f, p) ==
    /\ tpc' = [tpc EXCEPT ![Src(f)] = p]
    /\ UNCHANGED <<fstate, fexc>>

\* an exception leaves the body of the with statement: _clear_on_failure
\* will remove the directory and re-raise
DT_Fail(f, exc) ==
    /\ DT_Goto(f, "cleanup")
    /\ texc' = [texc EXCEPT ![Src(f)] = exc]

\* a pool thread picks the task up and enters download_target
DT_Start(f, p) ==
    /\ f \in Futures
    /\ PoolStart(f)
    /\ tpc' = [tpc EXCEPT ![Src(f)] = p]
    /\ UNCHANGED fexc

\* lines 102-104: the directory exists: source.path = source_path
DT_Exists(f) ==
    /\ DT_Start(f, "exists_status")
    /\ dir[Src(f)] # "absent"
    /\ path' = [path EXCEPT ![Src(f)] = "set"]
    /\ UNCHANGED <<status, dir, texc>>
    /\ DT_Frame

\* lines 105-106: source.status = DOWNLOADED; return
DT_ExistsStatus(f) ==
    /\ At(f, "exists_status")
    /\ status' = [status EXCEPT ![Src(f)] = "DOWNLOADED"]
    /\ DT_Finish(f, "none")
    /\ UNCHANGED <<path, dir>>
    /\ DT_Frame

\* lines 102, 108: the directory does not exist: source_path.mkdir()
DT_Mkdir(f) ==
    /\ DT_Start(f, "prepare")
    /\ dir[Src(f)] = "absent"
    /\ dir' = [dir EXCEPT ![Src(f)] = "incomplete"]
    /\ UNCHANGED <<status, path, texc>>
    /\ DT_Frame

\* line 110, lines 60-73: the listing has a file of a recognized format
DT_PrepareOk(f) ==
    /\ At(f, "prepare")
    /\ DT_Goto(f, "retrieve")
    /\ UNCHANGED <<status, path, dir, texc>>
    /\ DT_Frame

\* lines 67-75, 32-35: URLError or no recognized file: SkipError.from_source
\* marks the source SKIPPED and the error is raised
DT_PrepareSkip(f) ==
    /\ At(f, "prepare")
    /\ status' = [status EXCEPT ![Src(f)] = "SKIPPED"]
    /\ DT_Fail(f, "skip")
    /\ UNCHANGED <<path, dir>>
    /\ DT_Frame

\* lines 67-73: the listing request fails otherwise (malformed document)
DT_PrepareError(f) ==
    /\ At(f, "prepare")
    /\ DT_Fail(f, "error")
    /\ UNCHANGED <<status, path, dir>>
    /\ DT_Frame

\* lines 132-142: urlretrieve fails to download the archive, or
\* unpack_archive fails part-way: the directory is left incomplete, holding
\* nothing or a part of the archive
DT_RetrieveFails(f) ==
    /\ At(f, "retrieve")
    /\ DT_Fail(f, "error")
    /\ UNCHANGED <<status, path, dir>>
    /\ DT_Frame

\* lines 132-143: the archive is downloaded to a temporary file and
\* unpack_archive extracts it into the directory; the archive holds one
\* top-level directory ("single") or anything else ("multi"); then
\* source.path = source_path
DT_UnpackOk(f, layout) ==
    /\ At(f, "retrieve")
    /\ dir' = [dir EXCEPT ![Src(f)] = layout]
    /\ path' = [path EXCEPT ![Src(f)] = "set"]
    /\ DT_Goto(f, "listdir")
    /\ UNCHANGED <<status, texc>>
    /\ DT_Frame

\* lines 145-147: iterdir or rename fails with a file system error
DT_ListFails(f) ==
    /\ At(f, "listdir")
    /\ DT_Fail(f, "error")
    /\ UNCHANGED <<status, path, dir>>
    /\ DT_Frame

\* lines 145-147: exactly one entry, a directory: it is renamed to src
DT_Rename(f) ==
    /\ At(f, "listdir")
    /\ dir[Src(f)] = "single"
    /\ dir' = [dir EXCEPT ![Src(f)] = "src"]
    /\ DT_Goto(f, "setstatus")
    /\ UNCHANGED <<status, path, texc>>
    /\ DT_Frame

\* lines 145-146: any other layout: the if is not taken, the function returns
DT_NoRename(f) ==
    /\ At(f, "listdir")
    /\ dir[Src(f)] # "single"
    /\ DT_Finish(f, "none")
    /\ UNCHANGED <<status, path, dir>>
    /\ DT_Frame

\* line 148: source.status = DOWNLOADED
DT_SetStatus(f) ==
    /\ At(f, "setstatus")
    /\ status' = [status EXCEPT ![Src(f)] = "DOWNLOADED"]
    /\ DT_Finish(f, "none")
    /\ UNCHANGED <<path, dir>>
    /\ DT_Frame

\* lines 87-92: _clear_on_failure removes the directory and re-raises
DT_Cleanup(f) ==
    /\ At(f, "cleanup")
    /\ dir' = [dir EXCEPT ![Src(f)] = "absent"]
    /\ DT_Finish(f, texc[Src(f)])
    /\ UNCHANGED <<status, path>>
    /\ DT_Frame

\* ------------------------------------------------ download_pypi_dataset
\* lines 155-159
awaiting_sources_All == [i \in Sources |-> i]
awaiting_sources ==
    SelectSeq([i \in Sources |-> i], LAMBDA i : status[i] = "AWAITING_DOWNLOAD")

\* lines 155-174: download_pypi_dataset is called, for the first time or
\* again: the sources to fetch, the pool, the generator and the first next()
\* of the for loop
StartRun ==
    /\ opc \in {"idle", "returned", "raised"}
    /\ max_workers' = workers("io", DefaultCpuCount)
    /\ submitted' = <<>>
    /\ fstate' = <<>>
    /\ fexc' = <<>>
    /\ yieldCount' = <<>>
    /\ input_items' = awaiting_sources
    /\ iterator' = awaiting_sources
    /\ inputs' = <<>>
    /\ max_buffered_tasks' = workers("io", DefaultCpuCount) * 2
    /\ running_tasks' = {}
    /\ completed_tasks' = {}
    /\ pc' = "topup"
    /\ tpc' = [s \in Sources |-> "idle"]
    /\ texc' = [s \in Sources |-> "none"]
    /\ task_iter' = {}
    /\ opc' = "next"
    /\ UNCHANGED <<status, path, dir, cache_file, roVars, storeVars>>

\* the generator's own steps, run inside the for loop's next()
AcqBreak == opc = "next" /\ BE_Break /\ UNCHANGED <<execVars, roVars, storeVars, acqVars>>

AcqTopUp == opc = "next" /\ BE_TopUp /\ UNCHANGED <<max_workers, roVars, storeVars, acqVars>>

\* lines 169-176: the batch the generator yields is bound to completed_tasks
\* and the inner for loop starts on it
AcqTakeBatch ==
    /\ task_iter' = wait_done(running_tasks)
    /\ opc' = "batch"
    /\ UNCHANGED <<max_workers, submitted, fstate, fexc, roVars, storeVars, status, path,
                   dir, cache_file, tpc, texc>>

AcqWaitAllDone ==
    /\ opc = "next"
    /\ BE_WaitAllDone
    /\ AcqTakeBatch

AcqWaitTimeout ==
    /\ opc = "next"
    /\ BE_WaitTimeout
    /\ AcqTakeBatch

\* lines 177-185: result() returns or raises SkipError, which is caught and
\* printed; then dataset.cache()
AcqTaskHandled(f) ==
    /\ opc = "batch"
    /\ f \in task_iter
    /\ fexc[f] \in {"none", "skip"}
    /\ Dataset_cache
    /\ task_iter' = task_iter \ {f}
    /\ UNCHANGED <<execVars, beVars, roVars, storeVars, status, path, dir, tpc, texc,
                   opc>>

\* lines 177-179: result() raises something else: it leaves the for loops
\* and the with blocks; the pool's shutdown waits for the submitted tasks
AcqTaskRaises(f) ==
    /\ opc = "batch"
    /\ f \in task_iter
    /\ fexc[f] = "error"
    /\ opc' = "unwinding"
    /\ UNCHANGED <<execVars, beVars, roVars, storeVars, status, path, dir, cache_file,
                   tpc, texc, task_iter>>

\* the inner for loop is over: next() resumes the generator
AcqNextBatch ==
    /\ opc = "batch"
    /\ task_iter = {}
    /\ BE_Resume
    /\ opc' = "next"
    /\ UNCHANGED <<execVars, roVars, storeVars, status, path, dir, cache_file, tpc, texc,
                   task_iter>>

\* the generator is exhausted: the with blocks exit, the function returns
AcqReturn ==
    /\ opc = "next"
    /\ pc = "done"
    /\ \A f \in Futures : fstate[f] = "FINISHED"
    /\ opc' = "returned"
    /\ UNCHANGED <<execVars, beVars, roVars, storeVars, status, path, dir, cache_file,
                   tpc, texc, task_iter>>

\* the pool has shut down: the exception leaves download_pypi_dataset
AcqUnwound ==
    /\ opc = "unwinding"
    /\ \A f \in Futures : fstate[f] = "FINISHED"
    /\ opc' = "raised"
    /\ UNCHANGED <<execVars, beVars, roVars, storeVars, status, path, dir, cache_file,
                   tpc, texc, task_iter>>

\* create_pypi_dataset, lines 196-197: the process was killed, or has ended,
\* and a new process loads the dataset from its cache file; the directories
\* on disk are as the old process left them
Restart ==
    /\ opc # "idle"
    /\ status' = [s \in Sources |-> Source_from_json(cache_file[s]).status]
    /\ path' = [s \in Sources |-> Source_from_json(cache_file[s]).path]
    /\ submitted' = <<>>
    /\ fstate' = <<>>
    /\ fexc' = <<>>
    /\ yieldCount' = <<>>
    /\ input_items' = <<>>
    /\ iterator' = <<>>
    /\ inputs' = <<>>
    /\ max_buffered_tasks' = 1
    /\ running_tasks' = {}
    /\ completed_tasks' = {}
    /\ pc' = "idle"
    /\ tpc' = [s \in Sources |-> "idle"]
    /\ texc' = [s \in Sources |-> "none"]
    /\ task_iter' = {}
    /\ opc' = "idle"
    /\ UNCHANGED <<max_workers, dir, cache_file, roVars, storeVars>>

\* no dataset is loaded
ACQ_Idle ==
    /\ status = <<>>
    /\ path = <<>>
    /\ dir = <<>>
    /\ cache_file = <<>>
    /\ tpc = <<>>
    /\ texc = <<>>
    /\ task_iter = {}
    /\ opc = "idle"

\* --------------------------------------------- Dataset objects and files
\* A path is the sequence of its components. None and JSON null are kept
\* apart from every path.
None == <<"None">>
null == <<"null">>

DEFAULT_DATASET_CACHE_FILE_NAME == "datasets.json"

\* the directories a dataset may live in, and the name of the i-th source
DatasetDirs == {<<"A">>, <<"B">>}
SourceName == <<"p", "q", "r">>

\* the global store file (SOURCED_CONFIG_DIR / "store.json")
StorePath == <<"config", "store.json">>

\* cache_dir / DEFAULT_DATASET_CACHE_FILE_NAME
meta_path(cache_dir) == cache_dir \o <<DEFAULT_DATASET_CACHE_FILE_NAME>>

\* tempfile.mkstemp(suffix, dir): a fresh file of the directory; its name is
\* never the name of a cache file or of the store file. The path tmp.json
\* stands for the temporary file of the cache() in progress: one that a
\* failed cache() leaves behind keeps a name that no later mkstemp returns and
\* that nothing opens, and is not followed further.
mkstemp_InPlace(target) == target
mkstemp(target) == SubSeq(target, 1, Len(target) - 1) \o <<"tmp.json">>

\* every path of the model: the dataset directories, the cache files, the
\* store file and the temporary files
Paths ==
    DatasetDirs \cup {meta_path(d) : d \in DatasetDirs}
        \cup {SubSeq(StorePath, 1, 1), StorePath}
        \cup {SubSeq(StorePath, 1, 1) \o <<"tmp.json">>}
        \cup {d \o <<"tmp.json">> : d \in DatasetDirs}

\* the members of the enum SourceStatus, by name, with their values
SourceStatus ==
    [AWAITING_DOWNLOAD |-> "AWAITING_DOWNLOAD",
     DOWNLOADED |-> "DOWNLOADED",
     SKIPPED |-> "SKIPPED"]

\* SourceStatus(value): the member with that value; none: ValueError
IsStatusValue(value) == \E m \in DOMAIN SourceStatus : SourceStatus[m] = value
StatusOfValue(value) == CHOOSE m \in DOMAIN SourceStatus : SourceStatus[m] = value

\* PurePath.relative_to(base): defined when base is a leading part of p,
\* ValueError otherwise
IsRelativeTo(p, base) ==
    /\ Len(base) <= Len(p)
    /\ SubSeq(p, 1, Len(base)) = base
RelativeTo(p, base) == SubSeq(p, Len(base) + 1, Len(p))

\* str(path) and Path(text): the path that has no component reads "."
str(p) == IF p = <<>> THEN <<".">> ELSE p
Path(text) == IF text = <<".">> THEN <<>> ELSE text

\* Source.to_json(relative_to), lines 114-124
to_json_Source_Absolute(source, root) ==
    [name |-> source.name,
     path |-> IF source.path = None THEN null ELSE str(source.path),
     status |-> source.status]
to_json_Source(source, root) ==
    [name |-> source.name,
     path |-> IF source.path = None THEN null
              ELSE str(RelativeTo(source.path, root)),
     status |-> source.status]

\* relative_to raises ValueError for a source outside the dataset's path
to_json_raises(d) ==
    \E i \in 1..Len(d.sources) :
        /\ d.sources[i].path # None
        /\ ~IsRelativeTo(d.sources[i].path, d.path)

\* Dataset.to_json, lines 61-74
to_json_Dataset(d) ==
    [name |-> d.name,
     path |-> str(d.path),
     sources |-> [i \in 1..Len(d.sources) |-> to_json_Source(d.sources[i], d.path)]]

\* Source.from_json(json_data, relative_to), lines 101-112
from_json_Source(json_data, root) ==
    [name |-> json_data.name,
     path |-> IF json_data.path = null THEN None
              ELSE root \o Path(json_data.path),
     status |-> StatusOfValue(json_data.status)]

\* what a call returns or raises
Returns(kind, value) == [kind |-> kind, value |-> value]
Raises(exception) == [kind |-> exception]

\* the lookups of keys that raise KeyError in from_json
HasKeys(json_data) ==
    /\ {"name", "path", "sources"} \subseteq DOMAIN json_data
    /\ \A i \in 1..Len(json_data.sources) :
          {"name", "path", "status"} \subseteq DOMAIN json_data.sources[i]

\* Dataset.from_json, lines 76-86
from_json_Dataset(json_data) ==
    IF ~HasKeys(json_data) THEN Raises("KeyError")
    ELSE IF \E i \in 1..Len(json_data.sources) :
                ~IsStatusValue(json_data.sources[i].status)
    THEN Raises("ValueError")
    ELSE Returns("Dataset",
             [name |-> json_data.name,
              path |-> Path(json_data.path),
              sources |-> [i \in 1..Len(json_data.sources) |->
                              from_json_Source(json_data.sources[i],
                                               Path(json_data.path))]])

\* what is at a path: nothing, a directory, or a file that is empty, holds
\* the text of a JSON document (all of it, or only its beginning), or holds
\* text that is no JSON at all
Absent == [kind |-> "absent"]
Directory == [kind |-> "directory"]
Empty == [kind |-> "empty"]
Garbage == [kind |-> "garbage"]
Text(json_data, complete) ==
    [kind |-> "text", json |-> json_data, complete |-> complete]

\* Path.exists()
exists(fs, p) == fs[p].kind # "absent"

\* json.load: the empty file and the beginning of a document are no JSON
json_load_raises(content) ==
    \/ content.kind \in {"empty", "garbage"}
    \/ ~content.complete

\* Dataset.from_cache(cache_dir), lines 41-50, on disk contents fs
from_cache_Swallow(fs, cache_dir) ==
    IF ~exists(fs, meta_path(cache_dir)) THEN Raises("FileNotFoundError")
    ELSE IF json_load_raises(fs[meta_path(cache_dir)])
    THEN Returns("Dataset", [name |-> "", path |-> cache_dir, sources |-> <<>>])
    ELSE from_json_Dataset(fs[meta_path(cache_dir)].json)
from_cache(fs, cache_dir) ==
    IF ~exists(fs, meta_path(cache_dir)) THEN Raises("FileNotFoundError")
    ELSE IF json_load_raises(fs[meta_path(cache_dir)])
    THEN Raises("JSONDecodeError")
    ELSE from_json_Dataset(fs[meta_path(cache_dir)].json)

\* ------------------------------------------------------- cache(), by step
NoWrite == [pc |-> "idle", obj |-> "none", key |-> "", target |-> <<>>]

NoStore == [kind |-> "none"]

\* no process is running
NoProcess == [at |-> "none", name |-> ""]

\* the object whose cache() is in progress: the store, a dataset of the
\* store's registry, or the dataset held outside of it
Self(obj, key) ==
    IF obj = "GlobalStore" THEN store
    ELSE IF key = "" THEN dataset ELSE store.datasets[key]

\* GlobalStore.to_json, lines 161-169: the name and path of every dataset,
\* in the registry's order
Ordered(S) == CHOOSE seq \in [1..Cardinality(S) -> S] : Range(seq) = S
to_json_GlobalStore_First(st) ==
    [datasets |->
        [i \in 1..Min(1, Cardinality(DOMAIN st.datasets)) |->
            [name |-> st.datasets[Ordered(DOMAIN st.datasets)[i]].name,
             path |-> str(st.datasets[Ordered(DOMAIN st.datasets)[i]].path)]]]
to_json_GlobalStore_ByKey(st) ==
    [datasets |->
        [i \in 1..Cardinality(DOMAIN st.datasets) |->
            [name |-> Ordered(DOMAIN st.datasets)[i],
             path |-> str(st.datasets[Ordered(DOMAIN st.datasets)[i]].path)]]]
to_json_GlobalStore(st) ==
    [datasets |->
        [i \in 1..Cardinality(DOMAIN st.datasets) |->
            [name |-> st.datasets[Ordered(DOMAIN st.datasets)[i]].name,
             path |-> str(st.datasets[Ordered(DOMAIN st.datasets)[i]].path)]]]

\* self.to_json() of the object being written
to_json_Self(obj, key) ==
    IF obj = "GlobalStore" THEN to_json_GlobalStore(store)
    ELSE to_json_Dataset(Self(obj, key))

\* lines 53-54, 172-173: meta_path and mkstemp; the temporary file is new
\* and empty
Cache_mkstemp(obj, key) ==
    /\ wr.pc = "idle"
    /\ LET target == IF obj = "GlobalStore" THEN store.path
                     ELSE meta_path(Self(obj, key).path)
       IN /\ exists(disk, SubSeq(target, 1, Len(target) - 1))
          /\ disk' = [disk EXCEPT ![mkstemp(target)] = Empty]
          /\ wr' = [pc |-> "opened", obj |-> obj, key |-> key, target |-> target]
    /\ UNCHANGED <<dataset, store, result>>

\* lines 57, 123: self.to_json() raises ValueError: nothing is written and
\* the exception leaves cache(); the empty temporary file is left behind
Cache_to_json_raises ==
    /\ wr.pc = "opened"
    /\ wr.obj = "Dataset"
    /\ to_json_raises(Self(wr.obj, wr.key))
    /\ disk' = [disk EXCEPT ![mkstemp(wr.target)] = Absent]
    /\ wr' = NoWrite
    /\ UNCHANGED <<dataset, store, result>>

\* lines 56-57, 175-176: json.dump has written the beginning of the document
Cache_dump_begin ==
    /\ wr.pc = "opened"
    /\ wr.obj = "Dataset" => ~to_json_raises(Self(wr.obj, wr.key))
    /\ disk' = [disk EXCEPT ![mkstemp(wr.target)] =
                                Text(to_json_Self(wr.obj, wr.key), FALSE)]
    /\ wr' = [wr EXCEPT !.pc = "partial"]
    /\ UNCHANGED <<dataset, store, result>>

\* lines 56-57, 175-176: json.dump has written the rest and the stream is
\* closed
Cache_dump_end ==
    /\ wr.pc = "partial"
    /\ disk' = [disk EXCEPT ![mkstemp(wr.target)] =
                                Text(disk[mkstemp(wr.target)].json, TRUE)]
    /\ wr' = [wr EXCEPT !.pc = "written"]
    /\ UNCHANGED <<dataset, store, result>>

\* lines 59, 179: os.replace(temp_file, meta_path)
Cache_replace ==
    /\ wr.pc = "written"
    /\ disk' = [disk EXCEPT ![wr.target] = disk[mkstemp(wr.target)],
                            ![mkstemp(wr.target)] = Absent]
    /\ wr' = NoWrite
    /\ UNCHANGED <<dataset, store, result>>

\* the process dies inside cache(): the temporary file is left behind, every
\* other file stays as it is; the objects of the process are gone
Cache_crash ==
    /\ wr.pc # "idle"
    /\ disk' = [disk EXCEPT ![mkstemp(wr.target)] = Absent]
    /\ wr' = NoWrite
    /\ store' = NoStore
    /\ UNCHANGED <<dataset, result>>

\* ------------------------------------------------ loading and the outside
\* Dataset.from_json(dataset.to_json())
RoundTrip ==
    /\ result' = [op |-> "from_json",
                  out |-> IF to_json_raises(dataset) THEN Raises("ValueError")
                          ELSE from_json_Dataset(to_json_Dataset(dataset))]
    /\ UNCHANGED <<disk, dataset, store, wr, cpc>>

\* Dataset.from_cache(cache_dir), by this process or by any other reader
FromCache(cache_dir) ==
    /\ result' = [op |-> "from_cache", out |-> from_cache(disk, cache_dir)]
    /\ UNCHANGED <<disk, dataset, store, wr, cpc>>

\* what is at from moves to to, with everything below it
Moved(fs, from, to) ==
    [p \in Paths |->
        IF IsRelativeTo(p, to) THEN fs[from \o RelativeTo(p, to)]
        ELSE IF IsRelativeTo(p, from) THEN Absent
        ELSE fs[p]]

\* somebody moves a dataset directory to a place where nothing is
MoveDir(from, to) ==
    /\ wr.pc = "idle"
    /\ disk[from].kind = "directory"
    /\ ~exists(disk, to)
    /\ disk' = Moved(disk, from, to)
    /\ UNCHANGED <<dataset, store, wr, result, cpc>>

\* somebody deletes the cache file of a dataset directory
DeleteCache(cache_dir) ==
    /\ exists(disk, meta_path(cache_dir))
    /\ disk' = [disk EXCEPT ![meta_path(cache_dir)] = Absent]
    /\ UNCHANGED <<dataset, store, wr, result, cpc>>

\* documents that are JSON but not what from_json expects
NoSourcesDocument == [name |-> "x", path |-> <<"A">>]
BadStatusDocument ==
    [name |-> "x", path |-> <<"A">>,
     sources |-> <<[name |-> "p", path |-> null, status |-> "BOGUS"]>>]

Malformed == {Garbage, Text(NoSourcesDocument, TRUE), Text(BadStatusDocument, TRUE)}

\* somebody overwrites the cache file of a dataset directory with content
\* that is not a dataset document
Corrupt(cache_dir, content) ==
    /\ exists(disk, cache_dir)
    /\ disk' = [disk EXCEPT ![meta_path(cache_dir)] = content]
    /\ UNCHANGED <<dataset, store, wr, result, cpc>>

\* ------------------------------------------------------------ GlobalStore
\* the registry (a dict) with the entry key -> value added or replaced
Put(registry, key, value) ==
    [k \in DOMAIN registry \cup {key} |-> IF k = key THEN value ELSE registry[k]]

NoDatasets == [k \in {} |-> k]

GlobalStoreObject(p, datasets) ==
    [kind |-> "GlobalStore", path |-> p, datasets |-> datasets]

\* lines 147-157, the loop of GlobalStore.from_json from entry i of the store
\* file on: a missing cache file is skipped with a warning, any other failure
\* of Dataset.from_cache goes on up
RECURSIVE load_datasets_Strict(_, _, _, _)
load_datasets_Strict(fs, entries, i, datasets) ==
    IF i > Len(entries) THEN Returns("dict", datasets)
    ELSE LET loaded == from_cache(fs, Path(entries[i].path))
         IN IF loaded.kind = "Dataset"
            THEN load_datasets_Strict(fs, entries, i + 1,
                               Put(datasets, entries[i].name, loaded.value))
            ELSE Raises(loaded.kind)

RECURSIVE load_datasets(_, _, _, _)
load_datasets(fs, entries, i, datasets) ==
    IF i > Len(entries) THEN Returns("dict", datasets)
    ELSE LET loaded == from_cache(fs, Path(entries[i].path))
         IN IF loaded.kind = "FileNotFoundError"
            THEN load_datasets(fs, entries, i + 1, datasets)
            ELSE IF loaded.kind = "Dataset"
            THEN load_datasets(fs, entries, i + 1,
                               Put(datasets, entries[i].name, loaded.value))
            ELSE Raises(loaded.kind)

\* GlobalStore.from_json(path, json_data), lines 143-159
from_json_GlobalStore(fs, p, json_data) ==
    LET loaded == load_datasets(fs, json_data.datasets, 1, NoDatasets)
    IN IF loaded.kind = "dict"
       THEN Returns("GlobalStore", GlobalStoreObject(p, loaded.value))
       ELSE loaded

\* GlobalStore.from_file(path), lines 132-141
from_file_Strict(fs, p) ==
    IF ~exists(fs, p) THEN Raises("FileNotFoundError")
    ELSE IF json_load_raises(fs[p]) THEN Raises("JSONDecodeError")
    ELSE from_json_GlobalStore(fs, p, fs[p].json)
from_file(fs, p) ==
    IF ~exists(fs, p) THEN Returns("GlobalStore", GlobalStoreObject(p, NoDatasets))
    ELSE IF json_load_raises(fs[p]) THEN Raises("JSONDecodeError")
    ELSE from_json_GlobalStore(fs, p, fs[p].json)

\* store = GlobalStore.from_file(path): the process holds what it returns;
\* when it raises, the process is left without a store
Store_from_file ==
    /\ wr.pc = "idle"
    /\ store' = IF from_file(disk, StorePath).kind = "GlobalStore"
                THEN from_file(disk, StorePath).value ELSE NoStore
    /\ UNCHANGED <<disk, dataset, wr, result, cpc>>

NoDataset == [name |-> "", path |-> <<>>, sources |-> <<>>]

DatasetNames == {"x", "y"}

\* download_dir = base_data_dir / name: every dataset has a directory of its
\* own
download_dir(name) == IF name = "x" THEN <<"A">> ELSE <<"B">>

\* the caller builds a Dataset object in its directory, as the tests do: one
\* source, still to be fetched or DOWNLOADED into the directory
NewDataset(name, st) ==
    /\ wr.pc = "idle"
    /\ dataset' = [name |-> name, path |-> download_dir(name),
                   sources |-> <<[name |-> SourceName[1],
                                  path |-> IF st = "DOWNLOADED"
                                           THEN download_dir(name) \o <<SourceName[1]>>
                                           ELSE None,
                                  status |-> st]>>]
    /\ UNCHANGED <<disk, store, wr, result, cpc>>

\* store.datasets[name] = dataset
Store_register ==
    /\ wr.pc = "idle"
    /\ store.kind = "GlobalStore"
    /\ dataset # NoDataset
    /\ store' = [store EXCEPT !.datasets = Put(@, dataset.name, dataset)]
    /\ UNCHANGED <<disk, dataset, wr, result, cpc>>

\* store.datasets[key] = dataset, under any key: datasets is a plain dict
Store_register_as(key) ==
    /\ wr.pc = "idle"
    /\ store.kind = "GlobalStore"
    /\ dataset # NoDataset
    /\ store' = [store EXCEPT !.datasets = Put(@, key, dataset)]
    /\ UNCHANGED <<disk, dataset, wr, result, cpc>>

\* del store.datasets[key]
Store_remove(key) ==
    /\ wr.pc = "idle"
    /\ store.kind = "GlobalStore"
    /\ key \in DOMAIN store.datasets
    /\ store' = [store EXCEPT !.datasets =
                                 [k \in DOMAIN @ \ {key} |-> @[k]]]
    /\ UNCHANGED <<disk, dataset, wr, result, cpc>>

\* no dataset, no store, no file
STORE_Idle ==
    /\ disk = [p \in Paths |-> Absent]
    /\ dataset = NoDataset
    /\ store = NoStore
    /\ wr = NoWrite
    /\ result = [op |-> "none", out |-> Raises("none")]
    /\ cpc = NoProcess

\* ---------------------------------------- specification: the executor alone
Init ==
    /\ \E n \in 0..MaxItems : input_items = [i \in 1..n |-> i]
    /\ iterator = input_items
    /\ inputs = <<>>
    /\ max_buffered_tasks \in 1..MaxBuffered
    /\ max_workers \in 1..MaxWorkers
    /\ running_tasks = {}
    /\ completed_tasks = {}
    /\ pc = "topup"
    /\ submitted = <<>>
    /\ fstate = <<>>
    /\ fexc = <<>>
    /\ yieldCount = <<>>
    /\ RO_Idle
    /\ ACQ_Idle
    /\ STORE_Idle

Break == BE_Break /\ UNCHANGED <<execVars, roVars, storeVars, acqVars>>

TopUp == BE_TopUp /\ UNCHANGED <<max_workers, roVars, storeVars, acqVars>>

WaitAllDone ==
    BE_WaitAllDone /\ UNCHANGED <<max_workers, submitted, fstate, fexc, roVars, storeVars, acqVars>>

WaitTimeout ==
    BE_WaitTimeout /\ UNCHANGED <<max_workers, submitted, fstate, fexc, roVars, storeVars, acqVars>>

Resume == BE_Resume /\ UNCHANGED <<execVars, roVars, storeVars, acqVars>>

\* the abstract unit of work: picked up by a pool worker, then returns or raises
TaskStart(f) ==
    /\ f \in Futures
    /\ PoolStart(f)
    /\ UNCHANGED <<max_workers, submitted, fexc, yieldCount, beVars, roVars, storeVars, acqVars>>

TaskReturn(f) ==
    /\ f \in Futures
    /\ PoolFinish(f, "none")
    /\ UNCHANGED <<max_workers, submitted, yieldCount, beVars, roVars, storeVars, acqVars>>

TaskRaise(f) ==
    /\ f \in Futures
    /\ PoolFinish(f, "error")
    /\ UNCHANGED <<max_workers, submitted, yieldCount, beVars, roVars, storeVars, acqVars>>

Next ==
    \/ Break
    \/ TopUp
    \/ WaitAllDone
    \/ WaitTimeout
    \/ Resume
    \/ \E f \in Futures : TaskStart(f)
    \/ \E f \in Futures : TaskReturn(f)
    \/ \E f \in Futures : TaskRaise(f)

Spec == Init /\ [][Next]_vars

\* Every submitted task eventually finishes, the poll always returns, and the
\* consumer keeps asking for the next batch.
FairSpec ==
    /\ Spec
    /\ WF_vars(Break)
    /\ WF_vars(TopUp)
    /\ WF_vars(WaitAllDone)
    /\ WF_vars(WaitTimeout)
    /\ WF_vars(Resume)
    /\ \A f \in 1..MaxItems : WF_vars(TaskStart(f))
    /\ \A f \in 1..MaxItems : WF_vars(TaskReturn(f) \/ TaskRaise(f))

\* ------------------------------- specification: run_on's analysis stage
InitRunOn ==
    /\ \E n \in 0..MaxFiles : all_files = [i \in 1..n |-> i]
    /\ left_files = all_files
    /\ files = <<>>
    /\ \E num_processes \in 1..MaxWorkers :
          /\ max_workers = num_processes
          /\ max_task_buffer = num_processes * TasksPerProcess
    /\ running_futures = {}
    /\ completed_futures = {}
    /\ future_iter = {}
    /\ ro_pc = "topup"
    /\ submitted = <<>>
    /\ fstate = <<>>
    /\ fexc = <<>>
    /\ yieldCount = <<>>
    /\ BE_Idle
    /\ ACQ_Idle
    /\ STORE_Idle

AnalysisBreak == RO_Break /\ UNCHANGED <<execVars, beVars, acqVars, storeVars>>

AnalysisTopUp == RO_TopUp /\ UNCHANGED <<max_workers, beVars, acqVars, storeVars>>

AnalysisWaitAllDone == RO_WaitAllDone /\ UNCHANGED <<execVars, beVars, acqVars, storeVars>>

AnalysisWaitTimeout == RO_WaitTimeout /\ UNCHANGED <<execVars, beVars, acqVars, storeVars>>

AnalysisYieldResult(f) ==
    RO_YieldResult(f) /\ UNCHANGED <<max_workers, submitted, fstate, fexc, beVars, acqVars, storeVars>>

AnalysisResultRaises(f) == RO_ResultRaises(f) /\ UNCHANGED <<execVars, beVars, acqVars, storeVars>>

AnalysisNextIteration == RO_NextIteration /\ UNCHANGED <<execVars, beVars, acqVars, storeVars>>

NextRunOn ==
    \/ AnalysisBreak
    \/ AnalysisTopUp
    \/ AnalysisWaitAllDone
    \/ AnalysisWaitTimeout
    \/ \E f \in Futures : AnalysisYieldResult(f)
    \/ \E f \in Futures : AnalysisResultRaises(f)
    \/ AnalysisNextIteration
    \/ \E f \in Futures : TaskStart(f)
    \/ \E f \in Futures : TaskReturn(f)
    \/ \E f \in Futures : TaskRaise(f)

SpecRunOn == InitRunOn /\ [][NextRunOn]_vars

\* ------------------------------------------ specification: acquisition
\* a dataset fresh from create_pypi_dataset: every source awaits download,
\* nothing is on disk but the cache file written at creation
InitAcq ==
    /\ \E n \in 1..MaxSources :
          /\ status = [s \in 1..n |-> "AWAITING_DOWNLOAD"]
          /\ path = [s \in 1..n |-> "None"]
          /\ dir = [s \in 1..n |-> "absent"]
          /\ cache_file = [s \in 1..n |->
                             [name |-> s, path |-> "null",
                              status |-> "AWAITING_DOWNLOAD"]]
          /\ tpc = [s \in 1..n |-> "idle"]
          /\ texc = [s \in 1..n |-> "none"]
    /\ task_iter = {}
    /\ opc = "idle"
    /\ max_workers = workers("io", DefaultCpuCount)
    /\ submitted = <<>>
    /\ fstate = <<>>
    /\ fexc = <<>>
    /\ yieldCount = <<>>
    /\ BE_Idle
    /\ RO_Idle
    /\ STORE_Idle

AcqStep ==
    \/ AcqBreak
    \/ AcqTopUp
    \/ AcqWaitAllDone
    \/ AcqWaitTimeout
    \/ \E f \in Futures : AcqTaskHandled(f)
    \/ \E f \in Futures : AcqTaskRaises(f)
    \/ AcqNextBatch
    \/ AcqReturn
    \/ AcqUnwound
    \/ \E f \in Futures : DT_Exists(f)
    \/ \E f \in Futures : DT_ExistsStatus(f)
    \/ \E f \in Futures : DT_Mkdir(f)
    \/ \E f \in Futures : DT_PrepareOk(f)
    \/ \E f \in Futures : DT_PrepareSkip(f)
    \/ \E f \in Futures : DT_PrepareError(f)
    \/ \E f \in Futures : DT_RetrieveFails(f)
    \/ \E f \in Futures : \E layout \in {"single", "multi"} : DT_UnpackOk(f, layout)
    \/ \E f \in Futures : DT_ListFails(f)
    \/ \E f \in Futures : DT_Rename(f)
    \/ \E f \in Futures : DT_NoRename(f)
    \/ \E f \in Futures : DT_SetStatus(f)
    \/ \E f \in Futures : DT_Cleanup(f)

\* download_pypi_dataset is called any number of times on the dataset in
\* memory
NextAcq == StartRun \/ AcqStep

SpecAcq == InitAcq /\ [][NextAcq]_vars

\* ------------------- specification: acquisition across process restarts
\* __main__.py lines 27-39: a process runs download_pypi_dataset once, on the
\* dataset create_pypi_dataset gave it
FirstRun == opc = "idle" /\ StartRun

NextResume == FirstRun \/ Restart \/ AcqStep

SpecResume == InitAcq /\ [][NextResume]_vars

\* ------------------------------- specification: one Dataset and its file
\* the values a Source object may have: any status; no path, the path of
\* the dataset itself, or a path in any of the directories
SourceChoices(root, i) ==
    {[name |-> SourceName[i], path |-> p, status |-> st] :
        p \in {None, root} \cup {d \o <<SourceName[i]>> : d \in DatasetDirs},
        st \in DOMAIN SourceStatus}

SourceLists(root, n) ==
    {seq \in [1..n -> UNION {SourceChoices(root, i) : i \in 1..n}] :
        \A i \in 1..n : seq[i] \in SourceChoices(root, i)}

\* nothing else of the program runs
REST_Idle ==
    /\ max_workers = 1
    /\ submitted = <<>>
    /\ fstate = <<>>
    /\ fexc = <<>>
    /\ yieldCount = <<>>
    /\ BE_Idle
    /\ RO_Idle
    /\ ACQ_Idle

StoreFrame == UNCHANGED <<execVars, beVars, roVars, acqVars>>

\* a Dataset object built by the caller; its directory exists and is empty
InitDataset ==
    /\ \E n \in 0..MaxStoredSources, d \in DatasetDirs :
          \E src \in SourceLists(d, n) :
              dataset = [name |-> "x", path |-> d, sources |-> src]
    /\ disk = [p \in Paths |->
                 IF p \in {dataset.path, SubSeq(StorePath, 1, 1)}
                 THEN Directory ELSE Absent]
    /\ store = NoStore
    /\ wr = NoWrite
    /\ result = [op |-> "none", out |-> Raises("none")]
    /\ cpc = NoProcess
    /\ REST_Idle

NextDataset ==
    \/ Cache_mkstemp("Dataset", "") /\ UNCHANGED cpc /\ StoreFrame
    \/ Cache_to_json_raises /\ UNCHANGED cpc /\ StoreFrame
    \/ Cache_dump_begin /\ UNCHANGED cpc /\ StoreFrame
    \/ Cache_dump_end /\ UNCHANGED cpc /\ StoreFrame
    \/ Cache_replace /\ UNCHANGED cpc /\ StoreFrame
    \/ Cache_crash /\ UNCHANGED cpc /\ StoreFrame
    \/ RoundTrip /\ StoreFrame
    \/ \E d \in DatasetDirs : FromCache(d) /\ StoreFrame
    \/ \E a, b \in DatasetDirs : MoveDir(a, b) /\ StoreFrame
    \/ \E d \in DatasetDirs : DeleteCache(d) /\ StoreFrame
    \/ \E d \in DatasetDirs, c \in Malformed : Corrupt(d, c) /\ StoreFrame

SpecDataset == InitDataset /\ [][NextDataset]_vars

\* ------------------------- specification: the GlobalStore and its datasets
\* a process has started: the directories exist, nothing was saved yet
InitStore ==
    /\ disk = [p \in Paths |->
                 IF p \in DatasetDirs \cup {SubSeq(StorePath, 1, 1)}
                 THEN Directory ELSE Absent]
    /\ dataset = NoDataset
    /\ store = NoStore
    /\ wr = NoWrite
    /\ result = [op |-> "none", out |-> Raises("none")]
    /\ cpc = NoProcess
    /\ REST_Idle

NextStore ==
    \/ Store_from_file /\ StoreFrame
    \/ \E name \in DatasetNames, st \in {"AWAITING_DOWNLOAD", "DOWNLOADED"} :
          NewDataset(name, st) /\ StoreFrame
    \/ Store_register /\ StoreFrame
    \/ \E key \in DatasetNames : Store_remove(key) /\ StoreFrame
    \/ (dataset # NoDataset /\ Cache_mkstemp("Dataset", "")) /\ UNCHANGED cpc /\ StoreFrame
    \/ (store.kind = "GlobalStore" /\ Cache_mkstemp("GlobalStore", "")) /\ UNCHANGED cpc /\ StoreFrame
    \/ Cache_dump_begin /\ UNCHANGED cpc /\ StoreFrame
    \/ Cache_dump_end /\ UNCHANGED cpc /\ StoreFrame
    \/ Cache_replace /\ UNCHANGED cpc /\ StoreFrame
    \/ Cache_crash /\ UNCHANGED cpc /\ StoreFrame
    \/ \E d \in DatasetDirs : DeleteCache(d) /\ StoreFrame

SpecStore == InitStore /\ [][NextStore]_vars

\* ------------------- specification: the registry, its keys and the names
\* as SpecStore, without crashes, and a dataset is registered under any key
NextRegistry ==
    \/ Store_from_file /\ StoreFrame
    \/ \E name \in DatasetNames, st \in {"AWAITING_DOWNLOAD", "DOWNLOADED"} :
          NewDataset(name, st) /\ StoreFrame
    \/ \E key \in DatasetNames : Store_register_as(key) /\ StoreFrame
    \/ \E key \in DatasetNames : Store_remove(key) /\ StoreFrame
    \/ (dataset # NoDataset /\ Cache_mkstemp("Dataset", "")) /\ UNCHANGED cpc /\ StoreFrame
    \/ (store.kind = "GlobalStore" /\ Cache_mkstemp("GlobalStore", "")) /\ UNCHANGED cpc /\ StoreFrame
    \/ Cache_dump_begin /\ UNCHANGED cpc /\ StoreFrame
    \/ Cache_dump_end /\ UNCHANGED cpc /\ StoreFrame
    \/ Cache_replace /\ UNCHANGED cpc /\ StoreFrame
    \/ \E d \in DatasetDirs : DeleteCache(d) /\ StoreFrame

SpecRegistry == InitStore /\ [][NextRegistry]_vars

\* ------------------------------ specification: the dataset-creation flow
Goto(at) == cpc' = [cpc EXCEPT !.at = at]

\* main, line 81: a process is started to create the dataset name; it loads
\* the store
Main_from_file(name) ==
    /\ cpc = NoProcess
    /\ from_file(disk, StorePath).kind = "GlobalStore"
    /\ store' = from_file(disk, StorePath).value
    /\ cpc' = [at |-> "mkdir", name |-> name]
    /\ UNCHANGED <<disk, dataset, wr, result>>

\* create_dataset, lines 24-25: download_dir.mkdir(exist_ok=True)
Create_mkdir ==
    /\ cpc.at = "mkdir"
    /\ disk' = [disk EXCEPT ![download_dir(cpc.name)] = Directory]
    /\ Goto("from_cache")
    /\ UNCHANGED <<dataset, store, wr, result>>

\* create_pypi_dataset, lines 196-197: the directory has a cache file, the
\* dataset is loaded from it
Create_from_cache ==
    /\ cpc.at = "from_cache"
    /\ from_cache(disk, download_dir(cpc.name)).kind = "Dataset"
    /\ dataset' = from_cache(disk, download_dir(cpc.name)).value
    /\ Goto("register")
    /\ UNCHANGED <<disk, store, wr, result>>

\* lines 198-202: there is no cache file and fetching the package index
\* fails: the exception ends the process
Create_collect_fails ==
    /\ cpc.at = "from_cache"
    /\ from_cache(disk, download_dir(cpc.name)).kind = "FileNotFoundError"
    /\ cpc' = NoProcess
    /\ store' = NoStore
    /\ dataset' = NoDataset
    /\ UNCHANGED <<disk, wr, result>>

\* lines 198-208: there is no cache file: a dataset of n sources, none with
\* a path, all AWAITING_DOWNLOAD, is built; line 209 is next
Create_build_NoCache(n) ==
    /\ cpc.at = "from_cache"
    /\ from_cache(disk, download_dir(cpc.name)).kind = "FileNotFoundError"
    /\ dataset' = [name |-> cpc.name, path |-> download_dir(cpc.name),
                   sources |-> [i \in 1..n |->
                                   [name |-> SourceName[i], path |-> None,
                                    status |-> "AWAITING_DOWNLOAD"]]]
    /\ Goto("register")
    /\ UNCHANGED <<disk, store, wr, result>>
Create_build(n) ==
    /\ cpc.at = "from_cache"
    /\ from_cache(disk, download_dir(cpc.name)).kind = "FileNotFoundError"
    /\ dataset' = [name |-> cpc.name, path |-> download_dir(cpc.name),
                   sources |-> [i \in 1..n |->
                                   [name |-> SourceName[i], path |-> None,
                                    status |-> "AWAITING_DOWNLOAD"]]]
    /\ Goto("dataset.cache")
    /\ UNCHANGED <<disk, store, wr, result>>

\* line 209: dataset.cache() is entered; registering is next
Create_dataset_cache ==
    /\ cpc.at = "dataset.cache"
    /\ Cache_mkstemp("Dataset", "")
    /\ Goto("register")

\* __main__.py line 30: store.datasets[name] = dataset, once
\* create_pypi_dataset has returned
Create_register ==
    /\ cpc.at = "register"
    /\ wr.pc = "idle"
    /\ store' = [store EXCEPT !.datasets = Put(@, cpc.name, dataset)]
    /\ Goto("store.cache")
    /\ UNCHANGED <<disk, dataset, wr, result>>

\* line 37: store.cache() is entered; the download is next
Create_store_cache ==
    /\ cpc.at = "store.cache"
    /\ Cache_mkstemp("GlobalStore", "")
    /\ Goto("download")

\* the dataset with source i in a new state
WithSource(d, i, st) ==
    [d EXCEPT !.sources[i] =
        [name |-> @.name,
         path |-> IF st = "DOWNLOADED" THEN d.path \o <<@.name>> ELSE None,
         status |-> st]]

\* line 39, pypi.py lines 176-184: download_pypi_dataset is running and the
\* task of a source that was awaiting has ended, DOWNLOADED or SKIPPED;
\* line 185 is next
Download_task_done(i, st) ==
    /\ cpc.at = "download"
    /\ wr.pc = "idle"
    /\ i \in 1..Len(dataset.sources)
    /\ dataset.sources[i].status = "AWAITING_DOWNLOAD"
    /\ dataset' = WithSource(dataset, i, st)
    /\ Goto("download.cache")
    /\ UNCHANGED <<disk, store, wr, result>>

\* pypi.py line 185: dataset.cache() is entered; the download goes on after it
Download_dataset_cache ==
    /\ cpc.at = "download.cache"
    /\ Cache_mkstemp("Dataset", "")
    /\ Goto("download")

\* download_pypi_dataset returns, or raises: the process ends
Download_ends ==
    /\ cpc.at = "download"
    /\ wr.pc = "idle"
    /\ cpc' = NoProcess
    /\ store' = NoStore
    /\ dataset' = NoDataset
    /\ UNCHANGED <<disk, wr, result>>

\* the process is killed, wherever it is: its objects are gone, the files
\* stay as they are
Process_killed ==
    /\ cpc # NoProcess
    /\ disk' = IF wr.pc = "idle" THEN disk
               ELSE [disk EXCEPT ![mkstemp(wr.target)] = Absent]
    /\ wr' = NoWrite
    /\ store' = NoStore
    /\ dataset' = NoDataset
    /\ cpc' = NoProcess
    /\ UNCHANGED result

\* no file and no directory but the configuration directory, no process
InitCreate ==
    /\ disk = [p \in Paths |->
                 IF p = SubSeq(StorePath, 1, 1) THEN Directory ELSE Absent]
    /\ dataset = NoDataset
    /\ store = NoStore
    /\ wr = NoWrite
    /\ result = [op |-> "none", out |-> Raises("none")]
    /\ cpc = NoProcess
    /\ REST_Idle

NextCreate ==
    \/ \E name \in DatasetNames : Main_from_file(name) /\ StoreFrame
    \/ Create_mkdir /\ StoreFrame
    \/ Create_from_cache /\ StoreFrame
    \/ Create_collect_fails /\ StoreFrame
    \/ \E n \in 1..MaxStoredSources : Create_build(n) /\ StoreFrame
    \/ Create_dataset_cache /\ StoreFrame
    \/ Create_register /\ StoreFrame
    \/ Create_store_cache /\ StoreFrame
    \/ \E i \in 1..MaxStoredSources, st \in {"DOWNLOADED", "SKIPPED"} :
          Download_task_done(i, st) /\ StoreFrame
    \/ Download_dataset_cache /\ StoreFrame
    \/ Download_ends /\ StoreFrame
    \/ Cache_dump_begin /\ UNCHANGED cpc /\ StoreFrame
    \/ Cache_dump_end /\ UNCHANGED cpc /\ StoreFrame
    \/ Cache_replace /\ UNCHANGED cpc /\ StoreFrame
    \/ Process_killed /\ StoreFrame

SpecCreate == InitCreate /\ [][NextCreate]_vars

\* ------------------------------------- specification: concurrency sizing
\* os.cpu_count() or 4: None (written 0 here) and 0 give the default
cpu_count(os_cpu_count) ==
    IF os_cpu_count = 0 THEN DefaultCpuCount ELSE os_cpu_count

Categories == {"io", "cpu", "both", "gpu", ""}

\* a call of workers(heavy=...) on a machine where os.cpu_count() gives
\* os_cpu_count: it returns an integer or raises ValueError
Workers_call(heavy, os_cpu_count) ==
    /\ result' = [op |-> "workers", heavy |-> heavy, os_cpu_count |-> os_cpu_count,
                  out |-> IF heavy \in {"io", "cpu", "both"}
                          THEN Returns("int", workers(heavy, cpu_count(os_cpu_count)))
                          ELSE Raises(workers(heavy, cpu_count(os_cpu_count)))]
    /\ UNCHANGED <<disk, dataset, store, wr, cpc>>

InitWorkers == STORE_Idle /\ REST_Idle

NextWorkers ==
    \E heavy \in Categories, os_cpu_count \in 0..MaxCpuCount :
        Workers_call(heavy, os_cpu_count) /\ StoreFrame

SpecWorkers == InitWorkers /\ [][NextWorkers]_vars

\* ------------------------------------------------- claims on the executor
\* futures submitted and not yet handed to the caller in a yielded batch
Outstanding == {f \in Futures : yieldCount[f] = 0}

\* C1: at every moment the number of tasks submitted to the pool and not yet
\* returned in a yielded batch is at most max_buffered_tasks.
C1_BoundedOutstanding == Cardinality(Outstanding) <= max_buffered_tasks

\* the working set is full while input is left and a batch was already yielded
C1_Witness ==
    /\ pc = "wait"
    /\ Cardinality(Outstanding) = max_buffered_tasks
    /\ iterator # <<>>
    /\ \E f \in Futures : yieldCount[f] = 1

\* C2: no future is yielded twice or before it is finished, items are
\* submitted in input order without repetition, and once the generator is
\* exhausted every input item was submitted once and yielded once.
C2_ExactlyOnce ==
    /\ \A f \in Futures :
          /\ yieldCount[f] <= 1
          /\ (yieldCount[f] > 0 \/ f \in completed_tasks) => fstate[f] = "FINISHED"
    /\ Len(submitted) <= Len(input_items)
    /\ submitted = SubSeq(input_items, 1, Len(submitted))
    /\ pc = "done" =>
          /\ submitted = input_items
          /\ \A f \in Futures : yieldCount[f] = 1

\* the generator is exhausted after more items than the buffer holds
C2_Witness ==
    /\ pc = "done"
    /\ Len(input_items) > max_buffered_tasks
    /\ \A f \in Futures : yieldCount[f] = 1

\* C3: with tasks that finish and a consumer that keeps asking, the generator
\* eventually stops, and it stops only with the input exhausted and no task
\* outstanding.
C3_Terminates ==
    /\ <>(pc = "done")
    /\ [](pc = "done" => (iterator = <<>> /\ running_tasks = {} /\ Outstanding = {}))

\* an iteration pulled nothing because the working set was full, and the
\* loop went on to wait
C3_Witness ==
    /\ pc = "wait"
    /\ inputs = <<>>
    /\ iterator # <<>>
    /\ Cardinality(running_tasks) = max_buffered_tasks

\* C4: a unit of work that raised does not make the generator raise, is
\* delivered in a batch, and every input item is still submitted and delivered.
C4_FailureIsolated ==
    /\ pc # "raised"
    /\ \A f \in Futures : (result_raises(f) /\ f \notin running_tasks) => yieldCount[f] = 1
    /\ (pc = "done" /\ \E f \in Futures : result_raises(f)) =>
          /\ submitted = input_items
          /\ \A f \in Futures : yieldCount[f] = 1

\* the first task raised, and a later item was submitted and delivered after it
C4_Witness ==
    /\ pc = "done"
    /\ Len(submitted) >= 2
    /\ result_raises(1)
    /\ max_buffered_tasks = 1
    /\ yieldCount[1] = 1
    /\ yieldCount[Len(submitted)] = 1

\* --------------------------------------------------- claims on run_on
\* C5: when the run_on generator is exhausted, the result of every collected
\* file was yielded exactly once.
C5_EveryFileYielded ==
    ro_pc = "done" =>
        /\ submitted = all_files
        /\ \A f \in Futures : yieldCount[f] = 1

\* C6: the failure of the analysis function on one file never ends the
\* stream: the generator does not stop with that failure.
C6_FailureDoesNotAbort == ro_pc # "raised"

\* ------------------------------------------------ claims on acquisition
Terminal(st) == st \in {"DOWNLOADED", "SKIPPED"}

\* the unit of work of source s is not in progress
Settled(s) == tpc[s] \in {"idle", "done"}

\* C7: after completed units of work every source that is DOWNLOADED has its
\* path set and its directory on disk, and every source that is
\* AWAITING_DOWNLOAD has no path.
C7_SourceInvariant ==
    \A s \in Sources :
        Settled(s) =>
            /\ status[s] = "DOWNLOADED" => (path[s] = "set" /\ dir[s] # "absent")
            /\ status[s] = "AWAITING_DOWNLOAD" => path[s] = "None"

\* C8: a status only ever changes from AWAITING_DOWNLOAD to DOWNLOADED or
\* SKIPPED, and a source that is DOWNLOADED or SKIPPED keeps its status and
\* its path through every step of every run of download_pypi_dataset.
C8_StatusTransitions ==
    [][\A s \in Sources :
          /\ status'[s] # status[s] =>
                (status[s] = "AWAITING_DOWNLOAD" /\ Terminal(status'[s]))
          /\ Terminal(status[s]) => (status'[s] = status[s] /\ path'[s] = path[s])
      ]_vars

\* a later run is fetching a source while another source, terminal since an
\* earlier run, was left out of it
C8_Witness ==
    /\ opc = "next"
    /\ \E s \in Sources :
          /\ Terminal(status[s])
          /\ s \notin Range(input_items)
    /\ \E t \in Sources : ~Settled(t)

\* C9: when download_pypi_dataset has returned normally no source is still
\* AWAITING_DOWNLOAD.
C9_NoneLeftAwaiting ==
    opc = "returned" => \A s \in Sources : status[s] # "AWAITING_DOWNLOAD"

\* the sources whose unit of work failed with something else than a skip
Failed == {Src(f) : f \in {g \in Futures : fexc[g] = "error"}}

\* C10: when a run in which a unit of work failed unexpectedly is over, every
\* source that was awaiting was attempted, the cache file records the outcome
\* of every other source, and the failed source is still AWAITING_DOWNLOAD.
C10_FailureDoesNotAbort ==
    (opc \in {"returned", "raised"} /\ Failed # {}) =>
        /\ \A s \in Range(input_items) : s \in Range(submitted)
        /\ \A s \in Sources \ Failed : cache_file[s] = Source_to_json(s)
        /\ \A s \in Failed : status[s] = "AWAITING_DOWNLOAD"

\* the futures of the current run whose unit of work ended with exception e
Raised(e) == {f \in Futures : fstate[f] = "FINISHED" /\ fexc[f] = e}

\* C11: once a unit of work has ended with an exception, the destination
\* directory of its source is gone, the source in memory has no path, and the
\* cache file records no path for it.
C11_FailedUnitLeavesNoPath ==
    \A f \in Raised("skip") \cup Raised("error") :
        /\ dir[Src(f)] = "absent"
        /\ path[Src(f)] = "None"
        /\ cache_file[Src(f)].path = "null"

\* C12: a unit of work that ended with SkipError left its source SKIPPED,
\* without a path and without a directory; a SkipError alone never makes
\* download_pypi_dataset raise, and when the run returns normally every
\* source that was awaiting was submitted.
C12_SkipIsRecorded ==
    /\ \A f \in Raised("skip") :
          /\ status[Src(f)] = "SKIPPED"
          /\ path[Src(f)] = "None"
          /\ dir[Src(f)] = "absent"
    /\ opc \in {"unwinding", "raised"} => Raised("error") # {}
    /\ opc = "returned" => Range(input_items) \subseteq Range(submitted)

\* the inner for loop of download_pypi_dataset is through with future f: it
\* came in a batch and its result was taken
Handled(f) == yieldCount[f] >= 1 /\ f \notin task_iter

\* the sources whose terminal state the cache file does not record
Unpersisted ==
    {s \in Sources : Terminal(status[s]) /\ cache_file[s] # Source_to_json(s)}

C14_TerminalUntouched ==
    [][Restart \/
       /\ \A f \in Futures' \ Futures :
             status[submitted'[f]] = "AWAITING_DOWNLOAD"
       /\ \A s \in Sources :
             (Terminal(status[s]) /\ Settled(s)) =>
                 /\ status'[s] = status[s]
                 /\ path'[s] = path[s]
                 /\ dir'[s] = dir[s]
                 /\ Settled(s)'
      ]_vars

\* after a restart the run is fetching a source that is still awaiting,
\* while a source the cache file records as DOWNLOADED was not submitted
C14_Witness ==
    /\ opc = "next"
    /\ \E s \in Sources :
          /\ status[s] = "DOWNLOADED"
          /\ cache_file[s].status = "DOWNLOADED"
          /\ dir[s] # "absent"
          /\ s \notin Range(input_items)
    /\ \E f \in Futures :
          /\ fstate[f] = "RUNNING"
          /\ status[Src(f)] = "AWAITING_DOWNLOAD"

\* ------------------------------------------- claims on the metadata store
\* the files cache() replaces
Targets == {meta_path(d) : d \in DatasetDirs} \cup {StorePath}

\* C15: a cache file or the store file never holds an empty or unfinished
\* document; while a cache() is in progress only its final replace (or
\* somebody deleting the file) changes the destination, a crash included;
\* and the replace puts the complete new document there.
C15_AtomicWrite ==
    /\ [](\A p \in Targets :
             disk[p].kind = "absent" \/ (disk[p].kind = "text" /\ disk[p].complete))
    /\ [][wr.pc # "idle" =>
             \/ /\ Cache_replace
                /\ disk'[wr.target] = Text(to_json_Self(wr.obj, wr.key), TRUE)
             \/ \E d \in DatasetDirs : DeleteCache(d)
             \/ disk'[wr.target] = disk[wr.target]
         ]_vars

\* GlobalStore.cache() has written the beginning of a new document to its
\* temporary file while the store file holds another, complete, document and
\* a dataset's cache file exists
C15_Witness ==
    /\ wr.pc = "partial"
    /\ wr.obj = "GlobalStore"
    /\ disk[StorePath].kind = "text"
    /\ disk[StorePath].complete
    /\ disk[StorePath].json # disk[mkstemp(StorePath)].json
    /\ \E d \in DatasetDirs : exists(disk, meta_path(d))

\* C16 as stated: for any dataset, whatever the paths of its sources,
\* Dataset.from_json(d.to_json()) returns a dataset equal to d.
C16_RoundTripAnyPath ==
    result.op = "from_json" => result.out = Returns("Dataset", dataset)

\* C16: for any dataset whose sources have no path or a path at or below the
\* dataset's path, Dataset.from_json(d.to_json()) returns a dataset equal to
\* d, and once d.cache() has written the cache file Dataset.from_cache(d.path)
\* returns a dataset equal to d.
C16_RoundTrip ==
    ~to_json_raises(dataset) =>
        /\ result.op = "from_json" => result.out = Returns("Dataset", dataset)
        /\ disk[meta_path(dataset.path)] = Text(to_json_Dataset(dataset), TRUE) =>
              from_cache(disk, dataset.path) = Returns("Dataset", dataset)

\* a dataset of two sources of different statuses, one without a path and
\* one inside the dataset's directory, went through to_json and from_json,
\* and its cache file is written
C16_Witness ==
    /\ result.op = "from_json"
    /\ result.out.kind = "Dataset"
    /\ Len(dataset.sources) = 2
    /\ dataset.sources[1].path = None
    /\ dataset.sources[2].path = dataset.path \o <<SourceName[2]>>
    /\ dataset.sources[1].status # dataset.sources[2].status
    /\ disk[meta_path(dataset.path)] = Text(to_json_Dataset(dataset), TRUE)

\* C17: whatever directory a cache file is loaded from, the dataset
\* Dataset.from_cache returns has that directory as its path, and the paths of
\* its sources lie in it.
C17_Relocatable ==
    \A d \in DatasetDirs :
        from_cache(disk, d).kind = "Dataset" =>
            /\ from_cache(disk, d).value.path = d
            /\ \A i \in 1..Len(from_cache(disk, d).value.sources) :
                  \/ from_cache(disk, d).value.sources[i].path = None
                  \/ IsRelativeTo(from_cache(disk, d).value.sources[i].path, d)

\* a file that exists and is no dataset document
IsMalformed(content) ==
    \/ content.kind \in {"empty", "garbage"}
    \/ /\ content.kind = "text"
       /\ ~content.complete \/ content.json \in {NoSourcesDocument, BadStatusDocument}

\* C18: Dataset.from_cache raises FileNotFoundError when the directory has no
\* cache file, raises another error and returns no dataset when the cache file
\* is malformed, and a load changes no file.
C18_LoadErrors ==
    /\ [](\A d \in DatasetDirs :
             /\ ~exists(disk, meta_path(d)) =>
                   from_cache(disk, d) = Raises("FileNotFoundError")
             /\ IsMalformed(disk[meta_path(d)]) =>
                   from_cache(disk, d).kind \in {"JSONDecodeError", "KeyError", "ValueError"})
    /\ [][result' # result => disk' = disk]_vars

\* a load has raised a parse error on a directory whose cache file is no
\* JSON, while the other directory has no cache file
C18_Witness ==
    /\ result = [op |-> "from_cache", out |-> Raises("JSONDecodeError")]
    /\ \E d \in DatasetDirs : disk[meta_path(d)] = Garbage
    /\ \E d \in DatasetDirs : ~exists(disk, meta_path(d))

\* the names of the store file's entries whose cache file exists
Loadable(fs, entries) ==
    {entries[i].name :
        i \in {j \in 1..Len(entries) : exists(fs, meta_path(Path(entries[j].path)))}}

\* C19: while no store file exists GlobalStore.from_file returns a store with
\* an empty registry; the store file comes into being only by the replace of
\* GlobalStore.cache(), never by a load; and the file written from an empty
\* registry loads as an empty registry.
C19_MissingStoreFile ==
    /\ [](~exists(disk, StorePath) =>
             from_file(disk, StorePath) =
                 Returns("GlobalStore", GlobalStoreObject(StorePath, NoDatasets)))
    /\ [](disk[StorePath] = Text([datasets |-> <<>>], TRUE) =>
             from_file(disk, StorePath) =
                 Returns("GlobalStore", GlobalStoreObject(StorePath, NoDatasets)))
    /\ [][(~exists(disk, StorePath) /\ exists(disk', StorePath)) =>
             (wr.obj = "GlobalStore" /\ Cache_replace)]_vars
    /\ [][Store_from_file => disk' = disk]_vars

\* the store loaded from no file was saved, and the process holds the empty
\* store again
C19_Witness ==
    /\ disk[StorePath] = Text([datasets |-> <<>>], TRUE)
    /\ store = GlobalStoreObject(StorePath, NoDatasets)
    /\ wr.pc = "idle"

\* C20: loading the store file never fails because a cache file is missing:
\* the registry gets exactly the names of the entries whose cache file
\* exists, each with the dataset loaded from the last such entry of that name.
C20_MissingDatasetDropped ==
    (exists(disk, StorePath) /\ ~json_load_raises(disk[StorePath])) =>
        LET entries == disk[StorePath].json.datasets
            loaded == from_file(disk, StorePath)
        IN /\ loaded.kind = "GlobalStore"
           /\ DOMAIN loaded.value.datasets = Loadable(disk, entries)
           /\ \A i \in 1..Len(entries) :
                 (/\ exists(disk, meta_path(Path(entries[i].path)))
                  /\ \A j \in (i + 1)..Len(entries) :
                        \/ entries[j].name # entries[i].name
                        \/ ~exists(disk, meta_path(Path(entries[j].path))))
                 => loaded.value.datasets[entries[i].name] =
                        from_cache(disk, Path(entries[i].path)).value

\* the store file lists two datasets, the cache file of one of them was
\* deleted, and the store the process has loaded holds the other one only
C20_Witness ==
    /\ exists(disk, StorePath)
    /\ Len(disk[StorePath].json.datasets) = 2
    /\ Cardinality(Loadable(disk, disk[StorePath].json.datasets)) = 1
    /\ store.kind = "GlobalStore"
    /\ DOMAIN store.datasets = Loadable(disk, disk[StorePath].json.datasets)
    /\ store = from_file(disk, StorePath).value

\* the registry GlobalStore.from_file gives for the files of fs
Reloaded(fs) == from_file(fs, StorePath).value.datasets

\* the datasets of registry that have a cache file in fs, each as that file
\* holds it
Persisted(fs, registry) ==
    [k \in {n \in DOMAIN registry : exists(fs, meta_path(registry[n].path))} |->
        from_cache(fs, registry[k].path).value]

\* C21: right after GlobalStore.cache() a reload gives exactly the registered
\* datasets that have a cache file; right after Dataset.cache() the cache file
\* loads as that dataset; until the next save or the deletion of a cache file
\* a reload keeps giving the same names, whatever is registered, unregistered
\* or cached meanwhile, each with what its cache file holds now.
C21_ReloadIsLastSave ==
    /\ [][(wr.obj = "GlobalStore" /\ Cache_replace) =>
             /\ from_file(disk', StorePath).kind = "GlobalStore"
             /\ Reloaded(disk') = Persisted(disk', store.datasets)]_vars
    /\ [][(wr.obj = "Dataset" /\ Cache_replace) =>
             from_cache(disk', Self(wr.obj, wr.key).path) =
                 Returns("Dataset", Self(wr.obj, wr.key))]_vars
    /\ [][(exists(disk, StorePath) /\ disk'[StorePath] = disk[StorePath]) =>
             /\ from_file(disk', StorePath).kind = "GlobalStore"
             /\ \A n \in DOMAIN Reloaded(disk) \cap DOMAIN Reloaded(disk') :
                   \E i \in 1..Len(disk[StorePath].json.datasets) :
                      /\ disk[StorePath].json.datasets[i].name = n
                      /\ Reloaded(disk')[n] =
                            from_cache(disk', Path(disk[StorePath].json.datasets[i].path)).value
             /\ DOMAIN Reloaded(disk') \subseteq DOMAIN Reloaded(disk)
                    \cup {disk[StorePath].json.datasets[i].name :
                             i \in 1..Len(disk[StorePath].json.datasets)}
             /\ (\A d \in DatasetDirs : exists(disk, meta_path(d)) <=> exists(disk', meta_path(d)))
                    => DOMAIN Reloaded(disk') = DOMAIN Reloaded(disk)]_vars

\* the store was saved with one dataset registered while both directories
\* hold a cache file: the process has reloaded it and holds that one dataset
C21_Witness ==
    /\ wr.pc = "idle"
    /\ exists(disk, StorePath)
    /\ Len(disk[StorePath].json.datasets) = 1
    /\ \A d \in DatasetDirs : exists(disk, meta_path(d))
    /\ store.kind = "GlobalStore"
    /\ store.datasets = Reloaded(disk)
    /\ Cardinality(DOMAIN store.datasets) = 1

\* ------------------------------------------- claims on concurrency sizing
\* C22: with P the available parallelism (the default when it is unknown),
\* workers returns 4 P for "io", 2 P for "both", and for "cpu" the integer
\* nearest to 1.25 P (the even one of the two when 1.25 P lies half way);
\* any other category raises ValueError; the call changes nothing else.
C22_WorkerCounts ==
    /\ [](result.op = "workers" =>
            LET P == IF result.os_cpu_count = 0 THEN DefaultCpuCount
                     ELSE result.os_cpu_count
            IN /\ result.heavy = "io" => result.out = Returns("int", 4 * P)
               /\ result.heavy = "both" => result.out = Returns("int", 2 * P)
               /\ result.heavy = "cpu" =>
                     /\ result.out.kind = "int"
                     /\ 4 * result.out.value - 5 * P \in -2..2
                     /\ 4 * result.out.value - 5 * P \in {-2, 2} =>
                           result.out.value % 2 = 0
               /\ result.heavy \notin {"io", "cpu", "both"} =>
                     result.out = Raises("ValueError"))
    /\ [][result'.op = "workers" =>
             UNCHANGED <<execVars, beVars, roVars, acqVars, disk, dataset, store, wr, cpc>>]_vars

\* workers(heavy="cpu") was called with 6 processors, where 1.25 P = 7.5
C22_Witness ==
    /\ result.op = "workers"
    /\ result.heavy = "cpu"
    /\ result.os_cpu_count = 6
    /\ result.out = Returns("int", 8)

\* ------------------------------------- further claims on acquisition
\* C23: while the orchestrator is between two polls with a completed task
\* left to handle, and so a dataset.cache() left to run, no step of a unit of
\* work writes the status or the path of a source.
C23_OnlyOrchestratorWrites ==
    [][\A s \in Sources :
          (opc = "batch" /\ task_iter # {} /\ tpc'[s] # tpc[s] /\ tpc'[s] # "idle") =>
              (status'[s] = status[s] /\ path'[s] = path[s])
      ]_vars

\* C24: whatever was killed and re-run, a source the cache file records as
\* DOWNLOADED has a directory that is fully extracted, never one that a unit
\* of work left incomplete.
C24_DownloadedIsComplete ==
    \A s \in Sources :
        cache_file[s].status = "DOWNLOADED" => dir[s] \notin {"absent", "incomplete"}

\* C27: when a run of acquisition is over, the sources the listing stage of
\* run_on takes are exactly the sources that are DOWNLOADED.
C27_ScansExactlyDownloaded ==
    opc \in {"returned", "raised"} =>
        \A s \in Sources : s \in Range(run_on_sources) <=> status[s] = "DOWNLOADED"

\* C28: when an exception has left download_pypi_dataset, the cache file
\* records the status every source has at that moment.
C28_PersistedOnInterrupt ==
    opc = "raised" => \A s \in Sources : cache_file[s].status = status[s]

\* the source invariant, on a record of the cache file
RecordInvariant(j) ==
    /\ j.status = "AWAITING_DOWNLOAD" => j.path = "null"
    /\ j.status = "DOWNLOADED" => j.path # "null"

\* C29: whenever dataset.cache() writes the cache file while units of work
\* are in progress, the record it writes for each of their sources satisfies
\* the source invariant.
C29_SnapshotInvariant ==
    [][cache_file' # cache_file =>
          \A s \in Sources : ~Settled(s) => RecordInvariant(cache_file'[s])
      ]_vars

\* --------------------------------------- further claims on the executor
\* the number of items taken from the input so far
Taken == Len(input_items) - Len(iterator)

\* C25: every iteration takes from the input exactly as many items as are
\* left or as the working set has free slots, whichever is less, in input
\* order, and submits exactly these; every item taken was submitted; and the
\* items taken never exceed the tasks already yielded plus max_buffered_tasks.
C25_LazyInput ==
    /\ [](Taken = Len(submitted))
    /\ [](Taken <= Cardinality({f \in Futures : yieldCount[f] >= 1}) + max_buffered_tasks)
    /\ [][(pc = "topup" /\ pc' # "topup") =>
             /\ Len(inputs') =
                   Min(Len(iterator), max_buffered_tasks - Cardinality(running_tasks))
             /\ inputs' = SubSeq(iterator, 1, Len(inputs'))
             /\ iterator' = SubSeq(iterator, Len(inputs') + 1, Len(iterator))
             /\ submitted' = submitted \o inputs'
      ]_vars

\* after a batch was yielded an iteration took the one item that filled the
\* one free slot of a larger working set
C25_Witness ==
    /\ pc = "wait"
    /\ max_buffered_tasks >= 2
    /\ Len(inputs) = 1
    /\ Cardinality(running_tasks) = max_buffered_tasks
    /\ \E f \in Futures : yieldCount[f] = 1

\* C26: while a poll is waiting and an outstanding task has finished, the
\* poll returns without waiting for the interval to elapse.
C26_PollEndsOnFirstDone ==
    (pc = "wait" /\ wait_done(running_tasks) # {}) => wait_returns(running_tasks)

\* ---------------------------------------- claims on the creation flow
\* the entries of the store file
Referenced(fs) ==
    IF exists(fs, StorePath) THEN Range(fs[StorePath].json.datasets) ELSE {}

\* C30: every dataset the store file references has a cache file, at every
\* step of the flow and after a kill at any step; the store file is replaced
\* only when every registered dataset has its cache file; and from the moment
\* the download starts, and after it was interrupted, a reload of the store
\* gives the dataset, loaded from its cache file.
C30_CreationOrder ==
    /\ [](\A e \in Referenced(disk) : exists(disk, meta_path(Path(e.path))))
    /\ [][(wr.obj = "GlobalStore" /\ Cache_replace) =>
             \A k \in DOMAIN store.datasets :
                 exists(disk, meta_path(store.datasets[k].path))]_vars
    /\ [](cpc.at \in {"download", "download.cache"} /\ ~(wr.obj = "GlobalStore") =>
             /\ cpc.name \in DOMAIN Reloaded(disk)
             /\ Reloaded(disk)[cpc.name] = from_cache(disk, download_dir(cpc.name)).value)
    /\ [][(Process_killed /\ cpc.at \in {"download", "download.cache"}
              /\ ~(wr.obj = "GlobalStore")) =>
             /\ cpc.name \in DOMAIN Reloaded(disk')
             /\ from_cache(disk', download_dir(cpc.name)).kind = "Dataset"]_vars

\* a download was interrupted after one of two sources: no process runs, the
\* store file references the dataset, and its cache file records one source
\* DOWNLOADED and the other still awaiting
C30_Witness ==
    /\ cpc = NoProcess
    /\ "x" \in DOMAIN Reloaded(disk)
    /\ Len(Reloaded(disk)["x"].sources) = 2
    /\ Reloaded(disk)["x"].sources[1].status = "DOWNLOADED"
    /\ Reloaded(disk)["x"].sources[2].status = "AWAITING_DOWNLOAD"
    /\ exists(disk, meta_path(download_dir("y")))
    /\ "y" \notin DOMAIN Reloaded(disk)

\* ------------------------------------------- claims on the registry keys
\* GlobalStore.cache() replaces the store file in this step
StoreSaved == wr.obj = "GlobalStore" /\ Cache_replace

\* every key of registry is the name of its dataset
KeyIsName(registry) == \A k \in DOMAIN registry : registry[k].name = k

\* no two keys of registry give datasets of one name
UniqueNames(registry) ==
    \A k1, k2 \in DOMAIN registry :
        registry[k1].name = registry[k2].name => k1 = k2

\* every dataset of registry has its cache file in fs
AllCached(fs, registry) ==
    \A k \in DOMAIN registry : exists(fs, meta_path(registry[k].path))

\* a reload from fs gives the keys of registry, each with the dataset that
\* was registered under it (its name, its directory)
KeysSurvive(fs, registry) ==
    /\ DOMAIN Reloaded(fs) = DOMAIN registry
    /\ \A k \in DOMAIN registry :
          /\ Reloaded(fs)[k].name = registry[k].name
          /\ Reloaded(fs)[k].path = registry[k].path

\* C31 as stated: after a save, the keys survive the reload exactly when
\* every key is its dataset's name and no two datasets share a name.
C31_KeysSurviveIff ==
    [][StoreSaved =>
          (KeysSurvive(disk', store.datasets) <=>
              (KeyIsName(store.datasets) /\ UniqueNames(store.datasets)))]_vars

\* C31, amended: after a save, a reload keys every dataset it gives by a name
\* written in the store file, which is the name field of a registered dataset
\* and the name of the dataset loaded; when every registered dataset has its
\* cache file, the keys survive exactly when every key is its dataset's name
\* and no two datasets share a name; a registered dataset without a cache
\* file is not reloaded, whatever its key.
C31_ReloadKeyedByName ==
    /\ [][StoreSaved =>
             /\ from_file(disk', StorePath).kind = "GlobalStore"
             /\ \A n \in DOMAIN Reloaded(disk') :
                   /\ \E i \in 1..Len(disk'[StorePath].json.datasets) :
                         disk'[StorePath].json.datasets[i].name = n
                   /\ \E k \in DOMAIN store.datasets :
                         store.datasets[k].name = n
                   /\ Reloaded(disk')[n].name = n]_vars
    /\ [][(StoreSaved /\ AllCached(disk', store.datasets)) =>
             (KeysSurvive(disk', store.datasets) <=>
                 (KeyIsName(store.datasets) /\ UniqueNames(store.datasets)))]_vars
    /\ [][(StoreSaved /\ ~AllCached(disk', store.datasets)) =>
             /\ ~KeysSurvive(disk', store.datasets)
             /\ \A k \in DOMAIN store.datasets :
                   ~exists(disk', meta_path(store.datasets[k].path)) =>
                       store.datasets[k].name \notin DOMAIN Reloaded(disk')]_vars

\* the store was just saved with one cached dataset registered under two
\* keys: the store file has two entries of one name, and a reload gives one
\* dataset, under that name
C31_Witness ==
    /\ wr.pc = "idle"
    /\ store.kind = "GlobalStore"
    /\ Cardinality(DOMAIN store.datasets) = 2
    /\ ~UniqueNames(store.datasets)
    /\ AllCached(disk, store.datasets)
    /\ exists(disk, StorePath)
    /\ disk[StorePath] = Text(to_json_GlobalStore(store), TRUE)
    /\ Cardinality(DOMAIN Reloaded(disk)) = 1
    /\ \A n \in DOMAIN Reloaded(disk) : Reloaded(disk)[n].name = n

====
